---- MODULE Spec2Model ----
(***************************************************************************)
(* Model of the incident-report form (frontend/src/components/InputForm.tsx)*)
(* and of the mock image endpoint (POST /api/generate-image).               *)
(*                                                                         *)
(* The form's state is the react-hook-form record `form`, the two useState *)
(* slider values, the validation errors, the geolocation lookups that are  *)
(* outstanding and the POSTs to /api/generate-text that are in flight.     *)
(* Every handler of the component is one action.                           *)
(***************************************************************************)
EXTENDS Integers, Sequences, FiniteSets, TLC

VARIABLES
    form,               \* useForm values (the record validation and onSubmit see)
    occurrenceDuration, \* useState(1): the number shown next to the first slider
    frequency,          \* useState(1): the number shown next to the second slider
    isSubmitted,        \* formState.isSubmitted: handleSubmit has run once
    errors,             \* formState.errors: the fields with a validation message
    geoPending,         \* getCurrentPosition calls whose callback has not run yet
    requests,           \* bodies of the POSTs to /api/generate-text in flight
    setTextCalls,       \* the arguments setText was called with, in order
    posts,              \* history: POSTs to /api/generate-text issued
    validSubmits,       \* history: submit events whose record passed the resolver
    responses,          \* history: the outcome of every settled POST, in order
    lastPosition,       \* history: coordinates of the latest success callback
    imageLog            \* the mock endpoint's requests with their responses

vars == <<form, occurrenceDuration, frequency, isSubmitted, errors, geoPending,
          requests, setTextCalls, posts, validSubmits, responses, lastPosition,
          imageLog>>

----------------------------------------------------------------------------
(* Bounds of the model *)

\* POSTs to /api/generate-text the environment lets the form issue
MaxRequests == 2

\* getCurrentPosition calls outstanding at once
MaxGeoPending == 1

\* how many of the contactMethods the user clicks on (the first ones)
ClickedMethods == 2

\* requests sent to the mock image endpoint
MaxImagePosts == 3

----------------------------------------------------------------------------
(* Values *)

\* A JavaScript value that is a string or a number.
StringValue(s) == [type |-> "string", str |-> s, num |-> 0]

NumberValue(n) == [type |-> "number", str |-> "", num |-> n]

Digit(d) ==
    CASE d = 0 -> "0" [] d = 1 -> "1" [] d = 2 -> "2" [] d = 3 -> "3"
      [] d = 4 -> "4" [] d = 5 -> "5" [] d = 6 -> "6" [] d = 7 -> "7"
      [] d = 8 -> "8" [] d = 9 -> "9"

\* Decimal text of a natural number, as an input element's value holds it.
RECURSIVE ToStr(_)
ToStr(n) == IF n < 10 THEN Digit(n) ELSE ToStr(n \div 10) \o Digit(n % 10)

contactMethods == <<"Phone", "Email", "Text message", "In-person">>

SliderMin == 1

SliderMax == 100

IncidentReportKeys ==
    {"name", "phone", "location", "occurrenceDuration", "frequency",
     "visibleInjuries", "preferredContact", "currentSituation", "culprit"}

Range(s) == {s[i] : i \in 1..Len(s)}

----------------------------------------------------------------------------
(* FormSchema *)

\* mutant: the minimum length is checked one too low
MinString_lenient(s, n) == Len(s) >= n - 1

\* z.string().min(n) on a value that is always a string
MinString(s, n) == Len(s) >= n

\* z.string().min(n) on a value that may be a number
ZString(v, n) == v.type = "string" /\ Len(v.str) >= n

ZLocation(l) ==
    /\ DOMAIN l = {"lat", "lng"}
    /\ l.lat \in Int
    /\ l.lng \in Int

ZContacts(a) ==
    /\ \A i \in 1..Len(a) : a[i] \in Range(contactMethods)
    /\ Len(a) >= 1

\* The fields of `data` the schema rejects.
FormSchema(data) ==
    {f \in IncidentReportKeys :
        CASE f = "name" -> ~MinString(data.name, 2)
          [] f = "phone" -> ~MinString(data.phone, 10)
          [] f = "location" -> ~ZLocation(data.location)
          [] f = "occurrenceDuration" -> ~ZString(data.occurrenceDuration, 1)
          [] f = "frequency" -> ~ZString(data.frequency, 1)
          [] f = "visibleInjuries" -> data.visibleInjuries \notin {"Yes", "No"}
          [] f = "preferredContact" -> ~ZContacts(data.preferredContact)
          [] f = "currentSituation" -> ~MinString(data.currentSituation, 5)
          [] f = "culprit" -> ~MinString(data.culprit, 5)}

----------------------------------------------------------------------------
(* Inputs of the environment *)

\* user?.fullName of the signed-in user, when there is one
FullNames == {"Jo"}

\* what the user types into a text field
TextInputs(f) ==
    CASE f = "name" -> {"J", "Jo"}
      [] f = "phone" -> {"1234567890"}
      [] f = "currentSituation" -> {"help!"}
      [] f = "culprit" -> {"a man"}

TextFields == {"name", "phone", "currentSituation", "culprit"}

\* positions the user drags a slider to, within min and max
SliderInputs == {SliderMin, SliderMax}

\* coordinates the browser reports
Positions ==
    {[latitude |-> 12, longitude |-> 77], [latitude |-> -33, longitude |-> 151]}

\* text of a successful response of /api/generate-text
ResponseTexts == {"hello", "ok"}

NoPosition == [lat |-> 0, lng |-> 0, none |-> TRUE]

----------------------------------------------------------------------------
(* InputForm *)

\* mutant: the default of visibleInjuries is the other member of the enum
defaultValues_injured(fullName) ==
    [name |-> fullName,
     phone |-> "",
     location |-> [lat |-> 0, lng |-> 0],
     occurrenceDuration |-> StringValue(""),
     frequency |-> StringValue(""),
     visibleInjuries |-> "Yes",
     preferredContact |-> <<>>,
     currentSituation |-> "",
     culprit |-> ""]

defaultValues(fullName) ==
    [name |-> fullName,
     phone |-> "",
     location |-> [lat |-> 0, lng |-> 0],
     occurrenceDuration |-> StringValue(""),
     frequency |-> StringValue(""),
     visibleInjuries |-> "No",
     preferredContact |-> <<>>,
     currentSituation |-> "",
     culprit |-> ""]

\* useForm({resolver, defaultValues}), useState(1), useState(1)
Init ==
    /\ \E fullName \in FullNames \cup {""} : form = defaultValues(fullName)
    /\ occurrenceDuration = 1
    /\ frequency = 1
    /\ isSubmitted = FALSE
    /\ errors = {}
    /\ geoPending = 0
    /\ requests = <<>>
    /\ setTextCalls = <<>>
    /\ posts = 0
    /\ validSubmits = 0
    /\ responses = <<>>
    /\ lastPosition = NoPosition
    /\ imageLog = <<>>

\* field.onChange of a registered field: useForm is given no mode, so a change
\* validates nothing before the first submit and re-validates the changed
\* field after it.
Revalidated(f, values) ==
    IF isSubmitted
    THEN (errors \ {f}) \cup (FormSchema(values) \cap {f})
    ELSE errors

\* <Input {...field} /> and <Textarea {...field} />: field.onChange(event)
\* stores event.target.value
InputChange(f, text) ==
    LET values == [form EXCEPT ![f] = text]
    IN /\ form' = values
       /\ errors' = Revalidated(f, values)
       /\ UNCHANGED <<occurrenceDuration, frequency, isSubmitted, geoPending,
                      requests, setTextCalls, posts, validSubmits, responses,
                      lastPosition, imageLog>>

\* <Slider onValueChange> of occurrenceDuration: setOccurrenceDuration(value[0]);
\* field.onChange(value[0]). value[0] is a number.
OccurrenceDurationValueChange(v) ==
    LET values == [form EXCEPT !.occurrenceDuration = NumberValue(v)]
    IN /\ occurrenceDuration' = v
       /\ form' = values
       /\ errors' = Revalidated("occurrenceDuration", values)
       /\ UNCHANGED <<frequency, isSubmitted, geoPending, requests, setTextCalls,
                      posts, validSubmits, responses, lastPosition, imageLog>>

\* <Slider onValueChange> of frequency: setFrequency(value[0]);
\* field.onChange(value[0])
FrequencyValueChange(v) ==
    LET values == [form EXCEPT !.frequency = NumberValue(v)]
    IN /\ frequency' = v
       /\ form' = values
       /\ errors' = Revalidated("frequency", values)
       /\ UNCHANGED <<occurrenceDuration, isSubmitted, geoPending, requests,
                      setTextCalls, posts, validSubmits, responses, lastPosition,
                      imageLog>>

\* <Slider {...field} value={[occurrenceDuration]}>: the spread also hands
\* field.onChange to the slider element as its change handler. When the element
\* reports a change of its input, field.onChange(event) stores
\* event.target.value, the text of the slider's value. Whether the element
\* reports one after a move is the slider component's choice (./ui/slider), so
\* the action may or may not follow a move.
OccurrenceDurationChangeEvent ==
    LET values == [form EXCEPT
                     !.occurrenceDuration = StringValue(ToStr(occurrenceDuration))]
    IN /\ form.occurrenceDuration.type = "number"
       /\ form' = values
       /\ errors' = Revalidated("occurrenceDuration", values)
       /\ UNCHANGED <<occurrenceDuration, frequency, isSubmitted, geoPending,
                      requests, setTextCalls, posts, validSubmits, responses,
                      lastPosition, imageLog>>

\* <Slider {...field} value={[frequency]}>: as above
FrequencyChangeEvent ==
    LET values == [form EXCEPT !.frequency = StringValue(ToStr(frequency))]
    IN /\ form.frequency.type = "number"
       /\ form' = values
       /\ errors' = Revalidated("frequency", values)
       /\ UNCHANGED <<occurrenceDuration, frequency, isSubmitted, geoPending,
                      requests, setTextCalls, posts, validSubmits, responses,
                      lastPosition, imageLog>>

\* field.value.includes(method)
Includes(value, method) == \E i \in 1..Len(value) : value[i] = method

\* mutant: the filter keeps the unchecked method instead of dropping it
newValue_keeps(value, method, checked) ==
    IF checked
    THEN Append(value, method)
    ELSE SelectSeq(value, LAMBDA item : item = method)

\* checked ? [...field.value, method] : field.value.filter((item) => item !== method)
newValue(value, method, checked) ==
    IF checked
    THEN Append(value, method)
    ELSE SelectSeq(value, LAMBDA item : item # method)

\* <Checkbox checked={field.value.includes(method)} onCheckedChange>: a click
\* on the box of `method` reports the opposite of what the box shows.
CheckedChange(method) ==
    LET checked == ~Includes(form.preferredContact, method)
        values == [form EXCEPT
                     !.preferredContact = newValue(form.preferredContact, method, checked)]
    IN /\ form' = values
       /\ errors' = Revalidated("preferredContact", values)
       /\ UNCHANGED <<occurrenceDuration, frequency, isSubmitted, geoPending,
                      requests, setTextCalls, posts, validSubmits, responses,
                      lastPosition, imageLog>>

\* getUserLocation: asks the browser for the position when navigator.geolocation
\* is there, and only logs when it is not.
getUserLocation(supported) ==
    /\ IF supported
       THEN /\ geoPending < MaxGeoPending
            /\ geoPending' = geoPending + 1
       ELSE UNCHANGED geoPending
    /\ UNCHANGED <<form, occurrenceDuration, frequency, isSubmitted, errors,
                   requests, setTextCalls, posts, validSubmits, responses,
                   lastPosition, imageLog>>

\* mutant: latitude and longitude are stored the wrong way round
PositionSuccess_swapped(coords) ==
    /\ geoPending > 0
    /\ geoPending' = geoPending - 1
    /\ form' = [form EXCEPT
                  !.location = [lat |-> coords.longitude, lng |-> coords.latitude]]
    /\ lastPosition' = [lat |-> coords.latitude, lng |-> coords.longitude,
                        none |-> FALSE]
    /\ UNCHANGED <<occurrenceDuration, frequency, isSubmitted, errors, requests,
                   setTextCalls, posts, validSubmits, responses, imageLog>>

\* the success callback of getCurrentPosition:
\* form.setValue('location', {lat: latitude, lng: longitude})
PositionSuccess(coords) ==
    /\ geoPending > 0
    /\ geoPending' = geoPending - 1
    /\ form' = [form EXCEPT
                  !.location = [lat |-> coords.latitude, lng |-> coords.longitude]]
    /\ lastPosition' = [lat |-> coords.latitude, lng |-> coords.longitude,
                        none |-> FALSE]
    /\ UNCHANGED <<occurrenceDuration, frequency, isSubmitted, errors, requests,
                   setTextCalls, posts, validSubmits, responses, imageLog>>

\* the error callback of getCurrentPosition: console.error only
PositionError ==
    /\ geoPending > 0
    /\ geoPending' = geoPending - 1
    /\ UNCHANGED <<form, occurrenceDuration, frequency, isSubmitted, errors,
                   requests, setTextCalls, posts, validSubmits, responses,
                   lastPosition, imageLog>>

\* mutant: a submit while a request is pending sends nothing
onSubmit_guarded(data) ==
    IF requests = <<>>
    THEN /\ requests' = Append(requests, data)
         /\ posts' = posts + 1
    ELSE UNCHANGED <<requests, posts>>

\* onSubmit up to its await: axios.post('/api/generate-text', data)
onSubmit(data) ==
    /\ requests' = Append(requests, data)
    /\ posts' = posts + 1

\* form.handleSubmit(onSubmit): the resolver validates the record; onSubmit is
\* called with it only when no field is rejected.
handleSubmit ==
    LET rejected == FormSchema(form)
    IN /\ isSubmitted' = TRUE
       /\ errors' = rejected
       /\ IF rejected = {}
          THEN /\ posts < MaxRequests
               /\ onSubmit(form)
               /\ validSubmits' = validSubmits + 1
          ELSE UNCHANGED <<requests, posts, validSubmits>>
       /\ UNCHANGED <<form, occurrenceDuration, frequency, geoPending,
                      setTextCalls, responses, lastPosition, imageLog>>

\* requests without its i-th element
Settled(i) == SubSeq(requests, 1, i - 1) \o SubSeq(requests, i + 1, Len(requests))

\* mutant: the response is logged and setText is not called
Fulfilled_logged(i, text) ==
    /\ requests' = Settled(i)
    /\ responses' = Append(responses, [ok |-> TRUE, text |-> text])
    /\ UNCHANGED <<form, occurrenceDuration, frequency, isSubmitted, errors,
                   geoPending, setTextCalls, posts, validSubmits, lastPosition,
                   imageLog>>

\* onSubmit after its await, the request fulfilled with {text}:
\* setText(res.data.text)
Fulfilled(i, text) ==
    /\ requests' = Settled(i)
    /\ responses' = Append(responses, [ok |-> TRUE, text |-> text])
    /\ setTextCalls' = Append(setTextCalls, text)
    /\ UNCHANGED <<form, occurrenceDuration, frequency, isSubmitted, errors,
                   geoPending, posts, validSubmits, lastPosition, imageLog>>

\* mutant: the catch clears the text shown
Rejected_clears(i) ==
    /\ requests' = Settled(i)
    /\ responses' = Append(responses, [ok |-> FALSE, text |-> ""])
    /\ setTextCalls' = Append(setTextCalls, "")
    /\ UNCHANGED <<form, occurrenceDuration, frequency, isSubmitted, errors,
                   geoPending, posts, validSubmits, lastPosition, imageLog>>

\* onSubmit's catch, the request rejected (no response, or an error status):
\* console.error(e)
Rejected(i) ==
    /\ requests' = Settled(i)
    /\ responses' = Append(responses, [ok |-> FALSE, text |-> ""])
    /\ UNCHANGED <<form, occurrenceDuration, frequency, isSubmitted, errors,
                   geoPending, setTextCalls, posts, validSubmits, lastPosition,
                   imageLog>>

\* The user edits the fields while no request is in flight; submit, the
\* geolocation lookups and the responses come in any order.
Idle == requests = <<>>

Next ==
    \/ \E f \in TextFields : \E text \in TextInputs(f) : Idle /\ InputChange(f, text)
    \/ \E v \in SliderInputs : Idle /\ OccurrenceDurationValueChange(v)
    \/ \E v \in SliderInputs : Idle /\ FrequencyValueChange(v)
    \/ Idle /\ OccurrenceDurationChangeEvent
    \/ Idle /\ FrequencyChangeEvent
    \/ \E k \in 1..ClickedMethods : Idle /\ CheckedChange(contactMethods[k])
    \/ \E supported \in BOOLEAN : getUserLocation(supported)
    \/ \E coords \in Positions : PositionSuccess(coords)
    \/ PositionError
    \/ handleSubmit
    \/ \E i \in 1..Len(requests) : \E text \in ResponseTexts : Fulfilled(i, text)
    \/ \E i \in 1..Len(requests) : Rejected(i)

Spec == Init /\ [][Next]_vars

----------------------------------------------------------------------------
(* POST /api/generate-image *)

\* Request bodies: the text sent, and what req.json() makes of it (it throws
\* on text that is not JSON).
ImageRequests ==
    {[text |-> "{\"generatedText\":\"a\",\"imagePrompt\":\"b\"}", json |-> TRUE],
     [text |-> "{}", json |-> TRUE],
     [text |-> "[1,2]", json |-> TRUE],
     [text |-> "{\"generatedText\":", json |-> FALSE],
     [text |-> "", json |-> FALSE]}

\* NextResponse.json(body, {status})
NextResponseJson(body, status) == [status |-> status, body |-> body]

\* mutant: the images returned depend on the body, and a body that does not
\* parse is answered like one that does
POST_byContent(req) ==
    IF req.text = "{}"
    THEN NextResponseJson([images |-> <<>>], 200)
    ELSE NextResponseJson(
             [images |->
                <<"https://images.pexels.com/photos/1133957/pexels-photo-1133957.jpeg?auto=compress&cs=tinysrgb&w=1260&h=750&dpr=1",
                  "https://images.pexels.com/photos/247599/pexels-photo-247599.jpeg?auto=compress&cs=tinysrgb&w=1260&h=750&dpr=1",
                  "https://img-cdn.pixlr.com/image-generator/history/65bb506dcb310754719cf81f/ede935de-1138-4f66-8ed7-44bd16efc709/small.webp">>],
             200)

\* export async function POST(req)
POST(req) ==
    IF req.json
    THEN LET response ==
                 [data |->
                    [images |->
                       <<"https://images.pexels.com/photos/1133957/pexels-photo-1133957.jpeg?auto=compress&cs=tinysrgb&w=1260&h=750&dpr=1",
                         "https://images.pexels.com/photos/247599/pexels-photo-247599.jpeg?auto=compress&cs=tinysrgb&w=1260&h=750&dpr=1",
                         "https://img-cdn.pixlr.com/image-generator/history/65bb506dcb310754719cf81f/ede935de-1138-4f66-8ed7-44bd16efc709/small.webp">>]]
             imageUrls == response.data.images
         IN NextResponseJson([images |-> imageUrls], 200)
    ELSE NextResponseJson([error |-> "Failed to generate images"], 500)

\* One request served by the endpoint.
ImagePost(req) ==
    /\ Len(imageLog) < MaxImagePosts
    /\ imageLog' = Append(imageLog, [req |-> req, res |-> POST(req)])
    /\ UNCHANGED <<form, occurrenceDuration, frequency, isSubmitted, errors,
                   geoPending, requests, setTextCalls, posts, validSubmits,
                   responses, lastPosition>>

NextImage == \E req \in ImageRequests : ImagePost(req)

SpecImage == Init /\ [][NextImage]_vars

----------------------------------------------------------------------------
(* Properties *)

\* The field constraints of an incident report, as the specification states
\* them: TRUE when `r` fails at least one.
FailsConstraint(r) ==
    \/ Len(r.name) < 2
    \/ Len(r.phone) < 10
    \/ r.occurrenceDuration.type # "string" \/ r.occurrenceDuration.str = ""
    \/ r.frequency.type # "string" \/ r.frequency.str = ""
    \/ r.preferredContact = <<>>
    \/ Len(r.currentSituation) < 5
    \/ Len(r.culprit) < 5
    \/ ~(r.location.lat \in Int /\ r.location.lng \in Int)
    \/ r.visibleInjuries \notin {"Yes", "No"}

\* C1: a submit of a record that fails a field constraint issues no POST (the
\* requests in flight and the count of POSTs stay as they are), so no record
\* in flight fails a constraint.
C1_InvalidSubmitNeverPosts ==
    /\ [](\A i \in 1..Len(requests) : ~FailsConstraint(requests[i]))
    /\ [][handleSubmit /\ FailsConstraint(form) => UNCHANGED <<requests, posts>>]_vars

\* C1 witness: every field but the name is valid, the name has one character,
\* submit has run and no POST was issued.
C1_Witness ==
    /\ isSubmitted
    /\ form.name = "J"
    /\ errors = {"name"}
    /\ posts = 0

\* C2: every submit of a record that satisfies all constraints issues exactly
\* one POST whose body is that record, with exactly the nine keys, also while
\* an earlier request is pending; POSTs come from valid submits only, so their
\* number is the number of valid submit events.
C2_ValidSubmitPostsOnce ==
    /\ [](posts = validSubmits)
    /\ [](\A i \in 1..Len(requests) :
            DOMAIN requests[i] =
                {"name", "phone", "location", "occurrenceDuration", "frequency",
                 "visibleInjuries", "preferredContact", "currentSituation", "culprit"})
    /\ [][handleSubmit /\ ~FailsConstraint(form)
            => requests' = Append(requests, form) /\ posts' = posts + 1]_vars
    /\ [][posts' # posts => handleSubmit /\ ~FailsConstraint(form)]_vars

\* C2 witness: a second POST was issued while the first was still pending.
C2_Witness ==
    /\ Len(requests) = 2
    /\ posts = 2
    /\ responses = <<>>

\* the texts of the fulfilled responses, in the order they arrived
RECURSIVE ReceivedTexts(_)
ReceivedTexts(rs) ==
    IF rs = <<>> THEN <<>>
    ELSE IF rs[1].ok
         THEN <<rs[1].text>> \o ReceivedTexts(Tail(rs))
         ELSE ReceivedTexts(Tail(rs))

\* C3: setText is called once per fulfilled response, with that response's
\* text, when the response arrives: its calls are the texts received, in order,
\* and it is called in no step that receives no fulfilled response.
C3_SetTextPerResponse ==
    /\ [](setTextCalls = ReceivedTexts(responses))
    /\ [](Len(responses) <= posts)
    /\ [][setTextCalls' # setTextCalls
            => /\ Len(responses') = Len(responses) + 1
               /\ responses'[Len(responses')].ok
               /\ setTextCalls' =
                    Append(setTextCalls, responses'[Len(responses')].text)]_vars

\* C3 witness: two responses with different texts arrived and setText got both.
C3_Witness ==
    /\ Len(setTextCalls) = 2
    /\ setTextCalls[1] # setTextCalls[2]
    /\ Len(responses) = 2

Members(value) == {value[i] : i \in 1..Len(value)}

\* C4: preferredContact holds no method twice, and a click on the box of m
\* changes the membership of m only: checking adds m, unchecking removes it.
C4_ContactToggle ==
    /\ [](\A i, j \in 1..Len(form.preferredContact) :
            form.preferredContact[i] = form.preferredContact[j] => i = j)
    /\ [][\A k \in 1..Len(contactMethods) :
            CheckedChange(contactMethods[k])
            => LET m == contactMethods[k]
                   before == Members(form.preferredContact)
                   after == Members(form'.preferredContact)
               IN /\ (m \in after) = (m \notin before)
                  /\ after \ {m} = before \ {m}]_vars

\* C4 witness: two methods are selected, in the order they were checked.
C4_Witness == form.preferredContact = <<"Email", "Phone">>

\* the number a slider field holds, or -1 when it holds none in the range
FieldNumber(v) ==
    IF \E n \in SliderMin..SliderMax : v = NumberValue(n) \/ v = StringValue(ToStr(n))
    THEN CHOOSE n \in SliderMin..SliderMax :
            v = NumberValue(n) \/ v = StringValue(ToStr(n))
    ELSE -1

\* C5: the form fields occurrenceDuration and frequency hold a value in
\* [1,100], equal to the number shown next to the slider, in every state.
C5_SliderFieldsInRange ==
    /\ FieldNumber(form.occurrenceDuration) \in 1..100
    /\ FieldNumber(form.occurrenceDuration) = occurrenceDuration
    /\ FieldNumber(form.frequency) \in 1..100
    /\ FieldNumber(form.frequency) = frequency

\* C6: the endpoint's response depends only on whether the body parses: the
\* three fixed URLs with status 200 when it does, the fixed error with status
\* 500 when it does not.
C6_ImageResponseFixed ==
    \A i \in 1..Len(imageLog) :
        IF imageLog[i].req.json
        THEN /\ imageLog[i].res.status = 200
             /\ DOMAIN imageLog[i].res.body = {"images"}
             /\ imageLog[i].res.body.images =
                  <<"https://images.pexels.com/photos/1133957/pexels-photo-1133957.jpeg?auto=compress&cs=tinysrgb&w=1260&h=750&dpr=1",
                    "https://images.pexels.com/photos/247599/pexels-photo-247599.jpeg?auto=compress&cs=tinysrgb&w=1260&h=750&dpr=1",
                    "https://img-cdn.pixlr.com/image-generator/history/65bb506dcb310754719cf81f/ede935de-1138-4f66-8ed7-44bd16efc709/small.webp">>
        ELSE /\ imageLog[i].res.status = 500
             /\ DOMAIN imageLog[i].res.body = {"error"}
             /\ imageLog[i].res.body.error = "Failed to generate images"

\* C6 witness: the endpoint has served bodies that parse, with different
\* content, and a body that does not.
C6_Witness ==
    /\ Len(imageLog) = 3
    /\ imageLog[1].req.json
    /\ imageLog[2].req.json
    /\ imageLog[1].req # imageLog[2].req
    /\ ~imageLog[3].req.json

\* C7: location is the coordinates of the latest success callback, (0,0) when
\* there was none; an error callback or an unsupported browser changes neither
\* the form nor the errors; a request in flight keeps the body it was sent
\* with, whose location is the field's value at the submit.
C7_LocationLastValueWins ==
    /\ [](form.location = [lat |-> lastPosition.lat, lng |-> lastPosition.lng])
    /\ [](lastPosition.none => form.location = [lat |-> 0, lng |-> 0])
    /\ [][PositionError \/ getUserLocation(FALSE) => UNCHANGED <<form, errors>>]_vars
    /\ [][\/ requests' = requests
          \/ \E i \in 1..Len(requests) :
                requests' = SubSeq(requests, 1, i - 1)
                              \o SubSeq(requests, i + 1, Len(requests))
          \/ /\ Len(requests') = Len(requests) + 1
             /\ SubSeq(requests', 1, Len(requests)) = requests
             /\ requests'[Len(requests')].location = form.location]_vars

\* C7 witness: a success callback ran after a submit: the field has the new
\* coordinates and the request in flight the ones of the submit.
C7_Witness ==
    /\ Len(requests) = 1
    /\ ~lastPosition.none
    /\ requests[1].location = [lat |-> 0, lng |-> 0]
    /\ form.location = [lat |-> -33, lng |-> 151]

\* C8: a failed POST calls setText for nothing, leaves the form record and the
\* errors as they were, and a valid record can be submitted again afterwards.
C8_FailureIsSilent ==
    /\ [][(Len(responses') = Len(responses) + 1 /\ ~responses'[Len(responses')].ok)
            => UNCHANGED <<form, occurrenceDuration, frequency, isSubmitted, errors,
                           setTextCalls, posts>>]_vars
    /\ []((~FailsConstraint(form) /\ posts < MaxRequests)
            => ENABLED (handleSubmit /\ posts' = posts + 1))

\* C8 witness: a POST failed and a later submit issued a new one.
C8_Witness ==
    /\ responses = <<[ok |-> FALSE, text |-> ""]>>
    /\ Len(requests) = 1
    /\ posts = 2

\* C9: the value a slider move writes into occurrenceDuration and frequency is
\* one the schema's non-empty-string constraint accepts.
C9_SliderValueAccepted ==
    /\ form.occurrenceDuration # StringValue("")
         => form.occurrenceDuration.type = "string" /\ form.occurrenceDuration.str # ""
    /\ form.frequency # StringValue("")
         => form.frequency.type = "string" /\ form.frequency.str # ""

\* C10: visibleInjuries is 'No' in the form record and in the body of every
\* POST.
C10_VisibleInjuriesNo ==
    /\ form.visibleInjuries = "No"
    /\ \A i \in 1..Len(requests) : requests[i].visibleInjuries = "No"

\* C10 witness: a POST is in flight, after every kind of field was edited.
C10_Witness ==
    /\ Len(requests) = 1
    /\ requests[1].visibleInjuries = "No"
    /\ requests[1].name = "Jo"
    /\ requests[1].preferredContact = <<"Phone", "Email">>
    /\ requests[1].location = [lat |-> 12, lng |-> 77]

====
